---- MODULE Spec2Model ----
(***************************************************************************)
(* Shannon-Fano file compressor (class FileCompressor and its driver).     *)
(* The pure parts of the codec are operators computed the way the C++      *)
(* computes them; the state machine runs them on a FileCompressor object   *)
(* and three files: the input, the archive and the decompressed output.    *)
(* Bytes are integers 0..255, bits are 0 and 1 (std::vector<bool>).        *)
(***************************************************************************)
EXTENDS Integers, Sequences, FiniteSets, TLC

(* ------------------------------ bounds --------------------------------- *)
MaxLen == 4        \* longest exhaustively enumerated input, in bytes
NumSyms == 3       \* size of the alphabet of the enumerated inputs
MaxRuns == 2       \* compress/decompress calls in one behaviour
MaxCut == 2        \* most bytes a truncation removes from the payload
MaxEntries == 2    \* entries of the enumerated code tables
MaxBits == 2       \* longest code of the enumerated code tables

(* -------------------------- program constants -------------------------- *)
ASCII == 256       \* constexpr uint16_t ASCII
UInt8 == 256       \* modulus of static_cast<uint8_t>
SizeT == 8         \* sizeof(size_t), the width of the total_bits field

Min(a, b) == IF a < b THEN a ELSE b

Reverse(s) == [j \in 1..Len(s) |-> s[Len(s) + 1 - j]]

(* The builds differ in what std::sort does with equal counts and in the   *)
(* order in which std::unordered_map is iterated; both are fixed functions *)
(* of the container's history within one build.                            *)
Builds == [tie : {"stable", "reversed"}, iter : {"insertion", "reverse"}]

NoFile == [exists |-> FALSE, bytes |-> <<>>]
File(b) == [exists |-> TRUE, bytes |-> b]

\* std::unordered_map<uint8_t, std::vector<bool>>: the keys in insertion
\* order and the code of each key
EmptyCodes == [keys |-> <<>>, bits |-> <<>>]

(* ------------------------- frequency analysis -------------------------- *)
\* Loops over a byte or record range are folded by halves, left half first,
\* which applies the loop body to the elements in order.  A fold that passes
\* a state on tests the state of the left half before it enters the right
\* half, so that TLC computes it there and not inside the right half.

\* the body of the read loop for one byte
CountByte(st, ch) ==
    LET occ == st.occurrences
        found == {j \in 1..Len(occ) : occ[j].first = ch}
    IN IF found # {}
       THEN LET it == CHOOSE j \in found : \A m \in found : j <= m
            IN [occurrences |-> [occ EXCEPT ![it].second = @ + 1],
                occur_sum |-> st.occur_sum + 1]
       ELSE [occurrences |-> Append(occ, [first |-> ch, second |-> 1]),
             occur_sum |-> st.occur_sum + 1]

RECURSIVE CountRange(_, _, _, _)
CountRange(st, data, lo, hi) ==
    IF lo > hi THEN st
    ELSE IF lo = hi THEN CountByte(st, data[lo])
    ELSE LET mid == (lo + hi) \div 2
             left == CountRange(st, data, lo, mid)
         IN IF left.occur_sum >= 0 THEN CountRange(left, data, mid + 1, hi) ELSE left

count_occurances(occ, sum, data) ==
    CountRange([occurrences |-> occ, occur_sum |-> sum], data, 1, Len(data))

\* one element put in its place among records already in descending order
InsertSorted(sorted, r, tie) ==
    LET k == IF tie = "stable"
             THEN Cardinality({j \in 1..Len(sorted) : sorted[j].second >= r.second})
             ELSE Cardinality({j \in 1..Len(sorted) : sorted[j].second > r.second})
    IN SubSeq(sorted, 1, k) \o <<r>> \o SubSeq(sorted, k + 1, Len(sorted))

RECURSIVE SortRange(_, _, _, _, _)
SortRange(sorted, occ, lo, hi, tie) ==
    IF lo > hi THEN sorted
    ELSE IF lo = hi THEN InsertSorted(sorted, occ[lo], tie)
    ELSE LET mid == (lo + hi) \div 2
             left == SortRange(sorted, occ, lo, mid, tie)
         IN IF Len(left) >= 0 THEN SortRange(left, occ, mid + 1, hi, tie) ELSE left

sort_occurances(occ, tie) == SortRange(<<>>, occ, 1, Len(occ), tie)

(* --------------------------- code construction ------------------------- *)
SpanSymbols(span) == [j \in 1..Len(span) |-> span[j].first]

supplement_codes(cds, span, prefix) ==
    LET syms == {span[j].first : j \in 1..Len(span)}
        old == DOMAIN cds.bits
        fresh == SelectSeq(SpanSymbols(span), LAMBDA s : s \notin old)
    IN [keys |-> cds.keys \o fresh,
        bits |-> [s \in old \cup syms |->
                    IF s \in syms
                    THEN Append(IF s \in old THEN cds.bits[s] ELSE <<>>, prefix)
                    ELSE cds.bits[s]]]

\* one test of the while condition of do_Fano_Algorithm on record k and, if
\* it holds, one run of the body; stopped once the condition has failed
ScanRecord(st, occur, half, k) ==
    IF st.stopped THEN st
    ELSE IF st.sum_cur + occur[k].second <= half
    THEN [i |-> st.i + 1, sum_cur |-> st.sum_cur + occur[k].second, stopped |-> FALSE]
    ELSE [st EXCEPT !.stopped = TRUE]

RECURSIVE ScanRange(_, _, _, _, _)
ScanRange(st, occur, half, lo, hi) ==
    IF lo > hi \/ st.stopped THEN st
    ELSE IF lo = hi THEN ScanRecord(st, occur, half, lo)
    ELSE LET mid == (lo + hi) \div 2
             left == ScanRange(st, occur, half, lo, mid)
         IN IF left.stopped THEN left ELSE ScanRange(left, occur, half, mid + 1, hi)

ScanSplit(occur, half) ==
    ScanRange([i |-> 0, sum_cur |-> 0, stopped |-> FALSE], occur, half, 1, Len(occur))

ClampSplit_NoLower(i, size) == IF i >= size THEN size - 1 ELSE i

ClampSplit(i, size) ==
    LET i1 == IF i = 0 THEN 1 ELSE i
    IN IF i1 >= size THEN size - 1 ELSE i1

SplitSums(sum_cur, vec_sum) == [left_sum |-> sum_cur, right_sum |-> vec_sum - sum_cur]

TagHalves_WholeSpan(cds, occur, i) ==
    supplement_codes(supplement_codes(cds, occur, 0),
                     SubSeq(occur, i + 1, Len(occur)), 1)

TagHalves(cds, occur, i) ==
    supplement_codes(supplement_codes(cds, SubSeq(occur, 1, i), 0),
                     SubSeq(occur, i + 1, Len(occur)), 1)

\* The recursive call on a span.  st carries the code map and a log of the
\* calls made on two or more records.  A split that leaves one side empty
\* makes the C++ recurse on the same span for ever; the model records it in
\* diverged and stops there.
RECURSIVE FanoSpan(_, _, _)
FanoSpan(occur, vec_sum, st) ==
    IF Len(occur) = 1 \/ st.diverged THEN st
    ELSE LET sc == ScanSplit(occur, vec_sum \div 2)
             sums == SplitSums(sc.sum_cur, vec_sum)
             i == ClampSplit(sc.i, Len(occur))
             call == [occur |-> occur, vec_sum |-> vec_sum, i |-> i]
         IN IF i < 1 \/ i > Len(occur) - 1
            THEN [st EXCEPT !.calls = @ \cup {call}, !.diverged = TRUE]
            ELSE LET tagged == [codes |-> TagHalves(st.codes, occur, i),
                                calls |-> st.calls \cup {call},
                                diverged |-> FALSE]
                     left == FanoSpan(SubSeq(occur, 1, i), sums.left_sum, tagged)
                 IN IF left.diverged THEN left
                    ELSE FanoSpan(SubSeq(occur, i + 1, Len(occur)), sums.right_sum, left)

LoneSymbol_NoBit(cds, occ) ==
    [keys |-> cds.keys \o SelectSeq(SpanSymbols(occ), LAMBDA s : s \notin DOMAIN cds.bits),
     bits |-> [s \in DOMAIN cds.bits \cup {occ[j].first : j \in 1..Len(occ)} |->
                 IF s \in DOMAIN cds.bits THEN cds.bits[s] ELSE <<>>]]

LoneSymbol(cds, occ) == supplement_codes(cds, occ, 0)

\* the call without arguments, as compress makes it
do_Fano_Algorithm(occ, sum, cds) ==
    IF Len(occ) <= 1
    THEN [codes |-> LoneSymbol(cds, occ), calls |-> {}, diverged |-> FALSE]
    ELSE FanoSpan(occ, sum, [codes |-> cds, calls |-> {}, diverged |-> FALSE])

(* ------------------------------ bit packing ---------------------------- *)
BitAt(bits, p) == IF p <= Len(bits) THEN bits[p] ELSE 0

FlushCount_Always(n) == (n \div 8) + 1

\* bytes written for n bits: one at every eighth bit, one more for a rest
FlushCount(n) == (n \div 8) + (IF n % 8 # 0 THEN 1 ELSE 0)

\* buffer |= bit << (7 - bitPos), written out at bitPos == 8 and at the end
PackBits(bits) ==
    [k \in 1..FlushCount(Len(bits)) |->
        128 * BitAt(bits, 8 * k - 7) + 64 * BitAt(bits, 8 * k - 6)
      + 32 * BitAt(bits, 8 * k - 5) + 16 * BitAt(bits, 8 * k - 4)
      + 8 * BitAt(bits, 8 * k - 3) + 4 * BitAt(bits, 8 * k - 2)
      + 2 * BitAt(bits, 8 * k - 1) + BitAt(bits, 8 * k)]

\* (byte >> (7 - b)) & 1 for the p-th bit of the bytes that start at from
UnpackBit(bytes, from, p) ==
    (bytes[from + ((p - 1) \div 8)] \div (2 ^ (7 - ((p - 1) % 8)))) % 2

\* the object representation of a size_t below 2^31 on a little-endian host
WriteSizeT(n) ==
    [k \in 1..SizeT |->
        IF k <= 3 THEN (n \div (UInt8 ^ (k - 1))) % UInt8
        ELSE IF k = 4 THEN n \div (UInt8 ^ 3)
        ELSE 0]

\* The value read back.  It is only ever compared with a count of bits read
\* from the file, so every value of 2^31 or more is represented by 2^31 - 1,
\* the largest number of the model.
ReadSizeT(bytes, pos) ==
    IF (\E k \in 4..(SizeT - 1) : bytes[pos + k] # 0) \/ bytes[pos + 3] >= 128
    THEN 2147483647
    ELSE bytes[pos] + UInt8 * bytes[pos + 1] + UInt8 ^ 2 * bytes[pos + 2]
         + UInt8 ^ 3 * bytes[pos + 3]

(* ------------------------------ write path ----------------------------- *)
IterKeys(cds, build) ==
    IF build.iter = "insertion" THEN cds.keys ELSE Reverse(cds.keys)

\* the bytes of one entry: symbol, bitCount, packed bits
WriteEntry(symbol, bits) == <<symbol, Len(bits) % UInt8>> \o PackBits(bits)

RECURSIVE WriteEntries(_, _, _, _)
WriteEntries(cds, order, lo, hi) ==
    IF lo > hi THEN <<>>
    ELSE IF lo = hi THEN WriteEntry(order[lo], cds.bits[order[lo]])
    ELSE LET mid == (lo + hi) \div 2
         IN WriteEntries(cds, order, lo, mid) \o WriteEntries(cds, order, mid + 1, hi)

TableSize(cds) == Cardinality(DOMAIN cds.bits) % UInt8

write_code_table(cds, build) ==
    <<TableSize(cds)>> \o WriteEntries(cds, IterKeys(cds, build), 1, Len(cds.keys))

RECURSIVE SumCodeBits(_, _, _, _)
SumCodeBits(cds, data, lo, hi) ==
    IF lo > hi THEN 0
    ELSE IF lo = hi THEN Len(cds.bits[data[lo]])
    ELSE LET mid == (lo + hi) \div 2
         IN SumCodeBits(cds, data, lo, mid) + SumCodeBits(cds, data, mid + 1, hi)

TotalBits_Padded(cds, data) == 8 * FlushCount(SumCodeBits(cds, data, 1, Len(data)))

\* totalBits += codes.at(ch).size() over the input
TotalBits(cds, data) == SumCodeBits(cds, data, 1, Len(data))

\* the bits the second loop feeds to the buffer
RECURSIVE EncodeRange(_, _, _, _)
EncodeRange(cds, data, lo, hi) ==
    IF lo > hi THEN <<>>
    ELSE IF lo = hi THEN cds.bits[data[lo]]
    ELSE LET mid == (lo + hi) \div 2
         IN EncodeRange(cds, data, lo, mid) \o EncodeRange(cds, data, mid + 1, hi)

\* codes.at(ch) throws std::out_of_range in the first loop, before anything
\* of the payload section has been written
write_encoded_data(cds, data) ==
    IF \E k \in 1..Len(data) : data[k] \notin DOMAIN cds.bits
    THEN [thrown |-> TRUE, totalBits |-> 0, bytes |-> <<>>]
    ELSE [thrown |-> FALSE,
          totalBits |-> TotalBits(cds, data),
          bytes |-> WriteSizeT(TotalBits(cds, data)) \o PackBits(EncodeRange(cds, data, 1, Len(data)))]

(* ------------------------------ read path ------------------------------ *)
\* codes[symbol] = bits
AssignCode(cds, symbol, bits) ==
    [keys |-> IF symbol \in DOMAIN cds.bits THEN cds.keys ELSE Append(cds.keys, symbol),
     bits |-> [s \in DOMAIN cds.bits \cup {symbol} |->
                 IF s = symbol THEN bits ELSE cds.bits[s]]]

\* bytes the inner while loop reads for one entry: one per eight bits begun
BytesRead(bitCount) == (bitCount + 7) \div 8

\* one iteration of the for loop, reading at st.pos
LoadEntry(st, bytes) ==
    LET symbol == bytes[st.pos]
        bitCount == bytes[st.pos + 1]
        bits == [p \in 1..bitCount |-> UnpackBit(bytes, st.pos + 2, p)]
    IN [codes |-> AssignCode(st.codes, symbol, bits),
        pos |-> st.pos + 2 + BytesRead(bitCount)]

\* iterations lo..hi of the for loop
RECURSIVE LoadEntries(_, _, _, _)
LoadEntries(st, bytes, lo, hi) ==
    IF lo > hi THEN st
    ELSE IF lo = hi THEN LoadEntry(st, bytes)
    ELSE LET mid == (lo + hi) \div 2
             left == LoadEntries(st, bytes, lo, mid)
         IN IF left.pos > 0 THEN LoadEntries(left, bytes, mid + 1, hi) ELSE left

\* the table read from the start of the archive and the position of the
\* first byte after it
load_archived(bytes) ==
    LoadEntries([codes |-> EmptyCodes, pos |-> 2], bytes, 1, bytes[1])

\* iteration order decides which symbol a code shared by two symbols keeps
make_code_to_symbol_map(cds, build) ==
    LET order == IterKeys(cds, build)
    IN [c \in {cds.bits[s] : s \in DOMAIN cds.bits} |->
          order[CHOOSE j \in 1..Len(order) :
                   /\ cds.bits[order[j]] = c
                   /\ \A m \in 1..Len(order) : cds.bits[order[m]] = c => m <= j]]

MaxCodeLen(map) ==
    IF DOMAIN map = {} THEN 0
    ELSE CHOOSE n \in {Len(c) : c \in DOMAIN map} : \A c \in DOMAIN map : Len(c) <= n

\* The decode loop from a point where bitsBuffer is empty and p bits have
\* been read: the buffer grows bit by bit until it equals a code, so the next
\* symbol is the shortest matching run; with none within the longest code the
\* buffer matches nothing until the loop ends.
RECURSIVE DecodeFrom(_, _, _, _, _, _)
DecodeFrom(bytes, from, avail, map, p, out) ==
    LET runs == {n \in 1..Min(MaxCodeLen(map), avail - p) :
                    [q \in 1..n |-> UnpackBit(bytes, from, p + q)] \in DOMAIN map}
    IN IF runs = {} THEN out
       ELSE LET n == CHOOSE n \in runs : \A m \in runs : n <= m
            IN DecodeFrom(bytes, from, avail, map, p + n,
                          Append(out, map[[q \in 1..n |-> UnpackBit(bytes, from, p + q)]]))

\* the loop ends at totalBits bits or at the byte read that fails
BitsAvailable(totalBits, payloadBytes) == Min(totalBits, 8 * payloadBytes)

decode_bitstream(cds, build, bytes, pos) ==
    LET totalBits == ReadSizeT(bytes, pos)
        from == pos + SizeT
        avail == BitsAvailable(totalBits, Len(bytes) - from + 1)
    IN [out |-> DecodeFrom(bytes, from, avail, make_code_to_symbol_map(cds, build), 0, <<>>),
        totalBits |-> totalBits,
        bitsRead |-> avail]

(* --------------------------- the two entry points ---------------------- *)
\* compress on an object whose members are occ, sum and cds, up to the point
\* where save_archived has the table and the payload section
compress(occ, sum, cds, data, bld) ==
    LET cnt == count_occurances(occ, sum, data)
        sorted == sort_occurances(cnt.occurrences, bld.tie)
        fano == do_Fano_Algorithm(sorted, cnt.occur_sum, cds)
        enc == write_encoded_data(fano.codes, data)
    IN [occurrences |-> sorted,
        occur_sum |-> cnt.occur_sum,
        codes |-> fano.codes,
        calls |-> fano.calls,
        diverged |-> fano.diverged,
        thrown |-> enc.thrown,
        table |-> IF fano.diverged THEN <<>> ELSE write_code_table(fano.codes, bld),
        payload |-> enc.bytes,
        totalBits |-> enc.totalBits]

decompress(bytes, bld) ==
    LET t == load_archived(bytes)
        d == decode_bitstream(t.codes, bld, bytes, t.pos)
    IN [codes |-> t.codes, out |-> d.out, totalBits |-> d.totalBits,
        bitsRead |-> d.bitsRead]

(* ------------------------------- inputs -------------------------------- *)
Alphabet == 65..(64 + NumSyms)

SmallInputs == UNION {[1..n -> Alphabet] : n \in 0..MaxLen}

AAABC == <<65, 65, 65, 66, 67>>

Skewed == <<65, 65, 65, 65, 65, 65, 65, 66, 66, 66, 67, 68>>

AllBytes == [j \in 1..ASCII |-> j - 1]

Inputs == SmallInputs \cup {AAABC, Skewed, AllBytes}

BitSeqs(n) == UNION {[1..m -> {0, 1}] : m \in 0..n}

Orderings(K) == {o \in [1..Cardinality(K) -> K] : \A a, b \in 1..Cardinality(K) : o[a] = o[b] => a = b}

\* every table of at most n entries over the symbols of A with codes of at
\* most b bits, in every insertion order
TablesOver(A, n, b) ==
    UNION {UNION {{[keys |-> o, bits |-> c] : c \in [K -> BitSeqs(b)]} : o \in Orderings(K)} :
             K \in {K \in SUBSET A : Cardinality(K) <= n}}

\* one code of 255 bits, one of 9 bits next to an empty one, and a table
\* with an entry for every byte value
LongTable == [keys |-> <<65>>, bits |-> [s \in {65} |-> [p \in 1..255 |-> p % 2]]]

WideTable == [keys |-> <<66, 65>>,
              bits |-> [s \in {65, 66} |-> IF s = 65 THEN <<>> ELSE <<1, 0, 1, 1, 0, 0, 1, 0, 1>>]]

FullTable == [keys |-> AllBytes,
              bits |-> [s \in 0..(ASCII - 1) |-> [p \in 1..8 |-> (s \div (2 ^ (8 - p))) % 2]]]

SpecialTables == {LongTable, WideTable, FullTable}

(* -------------------------------- state -------------------------------- *)
VARIABLES
    build,        \* the build's std::sort and unordered_map behaviour
    occurrences,  \* FileCompressor::occurrences
    occur_sum,    \* FileCompressor::occur_sum
    codes,        \* FileCompressor::codes
    uses,         \* calls made on the FileCompressor object of the last call
    input,        \* the file to compress
    archive,      \* the archive file
    output,       \* the file decompress writes
    result,       \* how the last call ended: "none", "ok", "error", "crash"
    lastOp,       \* the last step taken
    runs,         \* compress and decompress calls made so far
    calls,        \* the do_Fano_Algorithm calls of the last compress
    written,      \* layout of the archive as the last compress wrote it
    truncated,    \* the archive lost payload bytes after it was written
    hist,         \* every archive a compress call has written so far
    table0        \* the code table handed to write_code_table

vars == <<build, occurrences, occur_sum, codes, uses, input, archive, output,
          result, lastOp, runs, calls, written, truncated, hist, table0>>

NothingWritten == [ok |-> FALSE, tableLen |-> 0, totalBits |-> 0, payloadBytes |-> 0]

\* FileCompressor fc; and the files as they are before the first run
Init ==
    /\ build \in Builds
    /\ occurrences = <<>>
    /\ occur_sum = 0
    /\ codes = EmptyCodes
    /\ uses = 0
    /\ input \in {NoFile} \cup {File(b) : b \in Inputs}
    /\ archive = NoFile
    /\ output = NoFile
    /\ result = "none"
    /\ lastOp = "none"
    /\ runs = 0
    /\ calls = {}
    /\ written = NothingWritten
    /\ truncated = FALSE
    /\ hist = {}
    /\ table0 = EmptyCodes

\* fc.compress(input, archive) with the exception handler of main, on an
\* object whose members are occ, sum and cds
CompressCall(occ, sum, cds) ==
    /\ runs < MaxRuns
    /\ runs' = runs + 1
    /\ lastOp' = "compress"
    /\ UNCHANGED <<build, input, output, table0>>
    /\ IF ~input.exists
       THEN \* count_occurances: check_file_opened throws
            /\ result' = "error"
            /\ occurrences' = occ
            /\ occur_sum' = sum
            /\ codes' = cds
            /\ calls' = {}
            /\ UNCHANGED <<archive, written, truncated, hist>>
       ELSE \E r \in {compress(occ, sum, cds, input.bytes, build)} :
               /\ occurrences' = r.occurrences
               /\ occur_sum' = r.occur_sum
               /\ codes' = r.codes
               /\ calls' = r.calls
               /\ IF r.diverged
                  THEN /\ result' = "crash"
                       /\ UNCHANGED <<archive, written, truncated, hist>>
                  ELSE /\ archive' = File(r.table \o r.payload)
                       /\ truncated' = FALSE
                       /\ result' = IF r.thrown THEN "error" ELSE "ok"
                       /\ written' = [ok |-> ~r.thrown,
                                      tableLen |-> Len(r.table),
                                      totalBits |-> r.totalBits,
                                      payloadBytes |-> IF r.thrown THEN 0
                                                       ELSE Len(r.payload) - SizeT]
                       /\ hist' = IF r.thrown THEN hist
                                  ELSE hist \cup {r.table \o r.payload}

\* a run of the program with -c: main constructs the object and calls
\* compress on it once
Compress ==
    /\ uses' = 1
    /\ CompressCall(<<>>, 0, EmptyCodes)

\* a further compress call on the object the last call was made on
CompressAgain ==
    /\ uses >= 1
    /\ uses' = uses + 1
    /\ CompressCall(occurrences, occur_sum, codes)

\* a run of the program with -d: fc.decompress(archive, output) on a new
\* object, with the exception handler of main
Decompress ==
    /\ runs < MaxRuns
    /\ runs' = runs + 1
    /\ uses' = 1
    /\ lastOp' = "decompress"
    /\ occurrences' = <<>>
    /\ occur_sum' = 0
    /\ calls' = {}
    /\ UNCHANGED <<build, input, archive, written, truncated, hist, table0>>
    /\ IF ~archive.exists
       THEN /\ result' = "error"
            /\ codes' = EmptyCodes
            /\ UNCHANGED output
       ELSE \E d \in {decompress(archive.bytes, build)} :
               /\ codes' = d.codes
               /\ output' = File(d.out)
               /\ result' = "ok"

\* the archive loses bytes from the end of its payload section
Truncate ==
    /\ archive.exists
    /\ written.ok
    /\ ~truncated
    /\ \E k \in 1..Min(MaxCut, written.payloadBytes) :
          archive' = File(SubSeq(archive.bytes, 1, Len(archive.bytes) - k))
    /\ truncated' = TRUE
    /\ lastOp' = "truncate"
    /\ UNCHANGED <<build, occurrences, occur_sum, codes, uses, input, output, result,
                   runs, calls, written, hist, table0>>

Next == Compress \/ Decompress \/ Truncate

Spec == Init /\ [][Next]_vars

NextReuse == Compress \/ CompressAgain \/ Decompress \/ Truncate

SpecReuse == Init /\ [][NextReuse]_vars

(* ---------------- the code table written and read back ----------------- *)
InitTable ==
    /\ build \in Builds
    /\ table0 \in TablesOver(Alphabet, MaxEntries, MaxBits) \cup SpecialTables
    /\ codes = table0
    /\ occurrences = <<>>
    /\ occur_sum = 0
    /\ uses = 0
    /\ input = NoFile
    /\ archive = NoFile
    /\ output = NoFile
    /\ result = "none"
    /\ lastOp = "none"
    /\ runs = 0
    /\ calls = {}
    /\ written = NothingWritten
    /\ truncated = FALSE
    /\ hist = {}

SaveTable ==
    /\ lastOp = "none"
    /\ archive' = File(write_code_table(codes, build))
    /\ lastOp' = "write_code_table"
    /\ UNCHANGED <<build, occurrences, occur_sum, codes, uses, input, output, result,
                   runs, calls, written, truncated, hist, table0>>

LoadTable ==
    /\ lastOp = "write_code_table"
    /\ codes' = load_archived(archive.bytes).codes
    /\ lastOp' = "load_archived"
    /\ UNCHANGED <<build, occurrences, occur_sum, uses, input, archive, output, result,
                   runs, calls, written, truncated, hist, table0>>

NextTable == SaveTable \/ LoadTable

SpecTable == InitTable /\ [][NextTable]_vars

(* ------------------------------ properties ----------------------------- *)
IsPrefix(a, b) == Len(a) <= Len(b) /\ \A j \in 1..Len(a) : a[j] = b[j]

RECURSIVE SumCounts(_, _, _)
SumCounts(occur, lo, hi) ==
    IF lo > hi THEN 0
    ELSE IF lo = hi THEN occur[lo].second
    ELSE SumCounts(occur, lo, (lo + hi) \div 2) + SumCounts(occur, (lo + hi) \div 2 + 1, hi)

Total(occur) == SumCounts(occur, 1, Len(occur))

\* the length of the largest left prefix whose sum does not exceed limit
LargestPrefix(occur, limit) ==
    CHOOSE k \in 0..Len(occur) :
        /\ SumCounts(occur, 1, k) <= limit
        /\ \A m \in (k + 1)..Len(occur) : SumCounts(occur, 1, m) > limit

Clamped(k, size) == IF k < 1 THEN 1 ELSE IF k > size - 1 THEN size - 1 ELSE k

Compressed == lastOp = "compress" /\ result = "ok"

OneValue(bytes) == Len(bytes) >= 1 /\ \A j \in 1..Len(bytes) : bytes[j] = bytes[1]

PayloadOf(bytes) == SubSeq(bytes, written.tableLen + SizeT + 1, Len(bytes))

\* C1: decompressing the archive that compress wrote for the input file
\* writes an output file with exactly the bytes of the input file.
C1_RoundTrip ==
    (lastOp = "decompress" /\ result = "ok" /\ ~truncated)
        => output.bytes = input.bytes

\* C2: after code construction no symbol's code is a prefix of the code of
\* another symbol of the table.
C2_PrefixFree ==
    Compressed =>
        \A s, t \in DOMAIN codes.bits :
            s # t => ~IsPrefix(codes.bits[s], codes.bits[t])

C2_Witness ==
    /\ Compressed
    /\ \E s, t \in DOMAIN codes.bits : Len(codes.bits[s]) = 1 /\ Len(codes.bits[t]) = 3

\* C3: decompress of an archive whose payload section is shorter than
\* ceil(total_bits / 8) bytes ends in an error.
C3_TruncatedFails ==
    (lastOp = "decompress" /\ truncated) => result = "error"

\* C4: load_archived of the bytes write_code_table wrote for a table yields
\* the same symbols with the same codes.
C4_TableRoundTrip ==
    lastOp = "load_archived" => codes.bits = table0.bits

\* C5: all compress calls on the same input write the same archive, on a
\* new object or on one that has been used.
C5_Deterministic == Cardinality(hist) <= 1

\* C6: for an input of n >= 1 equal bytes the archive holds a table of
\* exactly one entry and a total_bits field of n times that entry's
\* bit length.
C6_SingleSymbol ==
    (Compressed /\ OneValue(input.bytes)) =>
        /\ archive.bytes[1] = 1
        /\ archive.bytes[2] = input.bytes[1]
        /\ written.tableLen = 3 + (archive.bytes[3] + 7) \div 8
        /\ ReadSizeT(archive.bytes, written.tableLen + 1)
             = Len(input.bytes) * archive.bytes[3]

C6_Witness == Compressed /\ OneValue(input.bytes) /\ Len(input.bytes) = MaxLen

\* C7: the payload after the total_bits field has ceil(total_bits / 8)
\* bytes, total_bits being the sum of the code lengths of the input's bytes,
\* and the unused low bits of its last byte are zero.
C7_PayloadSize ==
    Compressed =>
        LET tb == SumCodeBits(codes, input.bytes, 1, Len(input.bytes))
            payload == PayloadOf(archive.bytes)
        IN /\ ReadSizeT(archive.bytes, written.tableLen + 1) = tb
           /\ Len(payload) = (tb + 7) \div 8
           /\ tb % 8 # 0 => payload[Len(payload)] % (2 ^ (8 - (tb % 8))) = 0

C7_Witness ==
    /\ Compressed
    /\ written.totalBits % 8 # 0
    /\ written.totalBits > 8
    /\ PayloadOf(archive.bytes)[1] # 0

\* C8: every call of do_Fano_Algorithm on two or more records halves the
\* real sum of its records, so its split index is the clamped length of the
\* largest left prefix whose sum is at most half of that sum.
C8_OwnSum ==
    lastOp = "compress" =>
        \A c \in calls :
            /\ c.vec_sum = Total(c.occur)
            /\ c.i = Clamped(LargestPrefix(c.occur, Total(c.occur) \div 2), Len(c.occur))

\* C9: every split leaves two non-empty, strictly shorter halves, the
\* recursion ends, and with two or more symbols no code is longer than the
\* number of symbols less one.
C9_Terminates ==
    (lastOp = "compress" /\ input.exists) =>
        /\ result # "crash"
        /\ \A c \in calls : Len(c.occur) >= 2 /\ c.i >= 1 /\ c.i <= Len(c.occur) - 1
        /\ Len(occurrences) >= 2 =>
              \A s \in DOMAIN codes.bits : Len(codes.bits[s]) <= Len(occurrences) - 1

C9_Witness ==
    /\ lastOp = "compress"
    /\ Len(occurrences) = 3
    /\ \E s \in DOMAIN codes.bits : Len(codes.bits[s]) = 2
    /\ \E c \in calls : Len(c.occur) = 3 /\ c.i = 1 /\ c.occur[1].second > c.vec_sum \div 2

\* C10 as stated: a lone symbol gets the empty bit sequence.
C10_EmptyCode ==
    (Compressed /\ Len(occurrences) = 1) =>
        codes.bits[occurrences[1].first] = <<>>

\* C10: a lone symbol gets the one-bit code 0: the call on a list of at
\* most one record appends a single 0 bit to the record's code.
C10_OneBitCode ==
    (Compressed /\ Len(occurrences) = 1) =>
        codes.bits[occurrences[1].first] = <<0>>

C10_Witness ==
    /\ Compressed
    /\ Len(occurrences) = 1
    /\ occurrences[1].second = 2
    /\ calls = {}

====
